---- MODULE Spec2Model ----
(***************************************************************************)
(* Model of the batch preparation core of greenrun-cli                     *)
(* (src/src/api-client.ts): filterTests, buildProjectSummary,              *)
(* startBatchRuns and ApiClient.prepareTestBatch, run against a remote     *)
(* service that holds one project, its test catalogue and its runs.        *)
(*                                                                         *)
(* Representation of JavaScript values:                                    *)
(*  - an object is a function from its property names; a property that is  *)
(*    undefined is a name missing from DOMAIN (Has(r, k) tests it);        *)
(*  - null is the value Null;                                              *)
(*  - a string that the code only compares for equality (ids, statuses,    *)
(*    auth modes, credential names) is a TLA+ string;                      *)
(*  - a string that the code slices, lower-cases or searches (test names,  *)
(*    tag names, page URLs, the filter expression) is a sequence of        *)
(*    one-character strings;                                               *)
(*  - a tag, string | TagData, is [kind |-> "string", val |-> s] or        *)
(*    [kind |-> "object"] with an optional name.                           *)
(***************************************************************************)
EXTENDS Integers, Sequences, FiniteSets, TLC

VARIABLES
    project,        \* the project record the service holds
    tests,          \* the service's test catalogue of that project, in order
    args,           \* arguments of the prepare_test_batch call: filter?, test_ids?
    pc,             \* position of prepareTestBatch
    projectResp,    \* state of the GET /projects/{id} request
    testsResp,      \* state of the GET /projects/{id}/tests?compact=1 request
    activeTests,    \* local activeTests of prepareTestBatch
    projectSummary, \* local projectSummary of prepareTestBatch
    startResp,      \* per filtered test: state of its POST /tests/{id}/runs
    svcRuns,        \* the runs the service has created, in creation order
    result,         \* what the call returned or threw
    sent,           \* the HTTP requests the client has sent, in order
    history,        \* what earlier tool calls handed to their callers
    completion,     \* the batchCompleteRuns call: its entries and outcome
    env,            \* process.env of the server process
    response        \* the HTTP response the service gives to a single request

vars == <<project, tests, args, pc, projectResp, testsResp, activeTests,
          projectSummary, startResp, svcRuns, result, sent, history,
          completion, env, response>>

(***************************************************************************)
(* Bounds of the model.                                                    *)
(***************************************************************************)
MaxTests == 2
MaxCalls == 2

(***************************************************************************)
(* JavaScript values.                                                      *)
(***************************************************************************)
Null == "<null>"

NoProps == [k \in {} |-> k]

Has(r, k) == k \in DOMAIN r

\* obj.k as an object with that one property, or with none when it is undefined
Prop(r, k) == IF Has(r, k) THEN (k :> r[k]) ELSE NoProps

\* !!v for an optional string property compared by equality
Truthy(r, k) == Has(r, k) /\ r[k] # Null /\ r[k] # ""

(***************************************************************************)
(* Strings as sequences of characters.                                     *)
(***************************************************************************)
UpperChars == <<"A","B","C","D","E","F","G","H","I","J","K","L","M",
                "N","O","P","Q","R","S","T","U","V","W","X","Y","Z">>
LowerChars == <<"a","b","c","d","e","f","g","h","i","j","k","l","m",
                "n","o","p","q","r","s","t","u","v","w","x","y","z">>

toLowerCaseChar(c) ==
    IF \E i \in 1..Len(UpperChars) : UpperChars[i] = c
    THEN LowerChars[CHOOSE i \in 1..Len(UpperChars) : UpperChars[i] = c]
    ELSE c

toLowerCase(s) == [i \in 1..Len(s) |-> toLowerCaseChar(s[i])]

startsWith(s, prefix) ==
    /\ Len(prefix) <= Len(s)
    /\ SubSeq(s, 1, Len(prefix)) = prefix

\* s.slice(n)
slice(s, n) == SubSeq(s, n + 1, Len(s))

includes(s, sub) ==
    \E i \in 0..(Len(s) - Len(sub)) : SubSeq(s, i + 1, i + Len(sub)) = sub

TagPrefix == <<"t","a","g",":">>
TagPrefixLen == 4
SlashPrefix == <<"/">>

(***************************************************************************)
(* filterTests (api-client.ts 342-368).  a is the pair of optional         *)
(* arguments (filter, testIds) as an object with the optional properties   *)
(* filter and test_ids.  Array.prototype.filter is SelectSeq: it keeps the  *)
(* order of the list.                                                      *)
(***************************************************************************)
\* test.status === 'active'
\* variant: a status test that only rejects archived tests
IsActive_NotArchived(test) == ~(Has(test, "status") /\ test.status = "archived")
IsActive(test) == Has(test, "status") /\ test.status = "active"

\* testIds && testIds.length > 0
HasExplicitIds(a) == Has(a, "test_ids") /\ Len(a.test_ids) > 0

\* the truthiness test `filter`: defined and not the empty string
HasFilter(a) == Has(a, "filter") /\ Len(a.filter) > 0

\* idSet.has(test.id)
InIdSet(test, testIds) == \E i \in 1..Len(testIds) : testIds[i] = test.id

\* test.tags || [],  test.pages || [],  test.name || ''
TagsOf(test) == IF Has(test, "tags") THEN test.tags ELSE <<>>
PagesOf(test) == IF Has(test, "pages") THEN test.pages ELSE <<>>
NameOf(test) == IF Has(test, "name") THEN test.name ELSE <<>>

\* typeof tag === 'string' ? tag : tag.name || ''
TagName(tag) ==
    IF tag.kind = "string" THEN tag.val
    ELSE IF Has(tag, "name") THEN tag.name ELSE <<>>

\* variant: the tag name only has to contain the wanted name
MatchesTag_Substring(test, filter) ==
    LET tagName == toLowerCase(slice(filter, TagPrefixLen))
    IN \E i \in 1..Len(TagsOf(test)) :
           includes(toLowerCase(TagName(TagsOf(test)[i])), tagName)
MatchesTag(test, filter) ==
    LET tagName == toLowerCase(slice(filter, TagPrefixLen))
    IN \E i \in 1..Len(TagsOf(test)) :
           toLowerCase(TagName(TagsOf(test)[i])) = tagName

\* variant: page URLs compared without regard to case
MatchesPage_IgnoreCase(test, filter) ==
    \E i \in 1..Len(PagesOf(test)) :
        includes(toLowerCase(PagesOf(test)[i].url), toLowerCase(filter))
MatchesPage(test, filter) ==
    \E i \in 1..Len(PagesOf(test)) : includes(PagesOf(test)[i].url, filter)

\* variant: the name compared as written
MatchesName_CaseSensitive(test, filter) == includes(NameOf(test), filter)
MatchesName(test, filter) ==
    LET term == toLowerCase(filter)
    IN includes(toLowerCase(NameOf(test)), term)

\* the rule the filter expression selects by its prefix
\* variant: a test whose name matches is kept under every rule
MatchesFilter_OrName(test, filter) ==
    \/ MatchesName(test, filter)
    \/ IF startsWith(filter, TagPrefix)
       THEN MatchesTag(test, filter)
       ELSE IF startsWith(filter, SlashPrefix)
       THEN MatchesPage(test, filter)
       ELSE MatchesName(test, filter)
MatchesFilter(test, filter) ==
    IF startsWith(filter, TagPrefix) THEN MatchesTag(test, filter)
    ELSE IF startsWith(filter, SlashPrefix) THEN MatchesPage(test, filter)
    ELSE MatchesName(test, filter)

\* variant: the expression is tried before the id list
filterTests_FilterFirst(ts, a) ==
    LET active == SelectSeq(ts, IsActive)
    IN IF HasFilter(a)
       THEN SelectSeq(active, LAMBDA t : MatchesFilter(t, a.filter))
       ELSE IF HasExplicitIds(a)
       THEN SelectSeq(active, LAMBDA t : InIdSet(t, a.test_ids))
       ELSE active
\* variant: an empty id list counts as an id list
filterTests_IdsWhenDefined(ts, a) ==
    LET active == SelectSeq(ts, IsActive)
    IN IF Has(a, "test_ids")
       THEN SelectSeq(active, LAMBDA t : InIdSet(t, a.test_ids))
       ELSE IF HasFilter(a)
       THEN SelectSeq(active, LAMBDA t : MatchesFilter(t, a.filter))
       ELSE active
\* variant: the result comes out in reverse order
filterTests_Reversed(ts, a) ==
    LET active == SelectSeq(ts, IsActive)
        kept == IF HasExplicitIds(a)
                THEN SelectSeq(active, LAMBDA t : InIdSet(t, a.test_ids))
                ELSE IF HasFilter(a)
                THEN SelectSeq(active, LAMBDA t : MatchesFilter(t, a.filter))
                ELSE active
    IN [i \in 1..Len(kept) |-> kept[Len(kept) + 1 - i]]
filterTests(ts, a) ==
    LET active == SelectSeq(ts, IsActive)
    IN IF HasExplicitIds(a)
       THEN SelectSeq(active, LAMBDA t : InIdSet(t, a.test_ids))
       ELSE IF HasFilter(a)
       THEN SelectSeq(active, LAMBDA t : MatchesFilter(t, a.filter))
       ELSE active

(***************************************************************************)
(* buildProjectSummary (api-client.ts 375-402).                            *)
(***************************************************************************)
\* project.auth_mode ?? 'none'
AuthModeOf(p) ==
    IF Has(p, "auth_mode") /\ p.auth_mode # Null THEN p.auth_mode ELSE "none"

\* new Set(tests.map(t => t.credential_name).filter(name => !!name))
referencedNames(ts) ==
    { ts[i].credential_name : i \in { j \in 1..Len(ts) : Truthy(ts[j], "credential_name") } }

\* project.credentials ?? []
allCredentials(p) == IF Has(p, "credentials") THEN p.credentials ELSE <<>>

\* variant: no fallback to the full list
filteredCredentials_Always(p, ts) ==
    SelectSeq(allCredentials(p), LAMBDA cred : cred.name \in referencedNames(ts))
\* variant: the full list whatever the tests reference
filteredCredentials_Never(p, ts) == allCredentials(p)
\* variant: one unknown name empties the list
filteredCredentials_StrictNames(p, ts) ==
    IF Cardinality(referencedNames(ts)) > 0
    THEN IF \A n \in referencedNames(ts) :
               \E k \in 1..Len(allCredentials(p)) : allCredentials(p)[k].name = n
         THEN SelectSeq(allCredentials(p), LAMBDA cred : cred.name \in referencedNames(ts))
         ELSE << >>
    ELSE allCredentials(p)
filteredCredentials(p, ts) ==
    IF Cardinality(referencedNames(ts)) > 0
    THEN SelectSeq(allCredentials(p), LAMBDA cred : cred.name \in referencedNames(ts))
    ELSE allCredentials(p)

\* the object literal returned for an authenticated project; a property
\* whose value is undefined is left out
\* variant: an empty filtered list is returned as an empty list
AuthSummary_KeepsEmptyList(p, ts) ==
       [id |-> p.id, name |-> p.name, auth_mode |-> AuthModeOf(p)]
    @@ Prop(p, "base_url")
    @@ Prop(p, "login_url")
    @@ Prop(p, "register_url")
    @@ Prop(p, "login_instructions")
    @@ Prop(p, "register_instructions")
    @@ [credentials |-> filteredCredentials(p, ts)]
AuthSummary(p, ts) ==
       [id |-> p.id, name |-> p.name, auth_mode |-> AuthModeOf(p)]
    @@ Prop(p, "base_url")
    @@ Prop(p, "login_url")
    @@ Prop(p, "register_url")
    @@ Prop(p, "login_instructions")
    @@ Prop(p, "register_instructions")
    @@ (IF Len(filteredCredentials(p, ts)) > 0
        THEN [credentials |-> filteredCredentials(p, ts)]
        ELSE NoProps)

\* variant: auth_mode none is not treated apart
buildProjectSummary_NoNoneBranch(p, ts) == AuthSummary(p, ts)
buildProjectSummary(p, ts) ==
    IF AuthModeOf(p) = "none"
    THEN [id |-> p.id, name |-> p.name, auth_mode |-> "none"] @@ Prop(p, "base_url")
    ELSE AuthSummary(p, ts)

(***************************************************************************)
(* ApiClient.prepareTestBatch (api-client.ts 309-338).                     *)
(***************************************************************************)
\* lines 315-318: the filtered tests and the summary built from them
\* variant: the summary is built from the whole catalogue
prepareSelection_AllTests(p, ts, a) ==
    [activeTests |-> filterTests(ts, a),
     projectSummary |-> buildProjectSummary(p, ts)]
prepareSelection(p, ts, a) ==
    [activeTests |-> filterTests(ts, a),
     projectSummary |-> buildProjectSummary(p, filterTests(ts, a))]

\* test.has_script ?? !!test.script
HasScript(test) ==
    IF Has(test, "has_script")
    THEN test.has_script
    ELSE Truthy(test, "script")

\* lines 328-336: one BatchTestSummary
BatchTestSummary(test, run) ==
       [test_id |-> test.id,
        run_id |-> run.id,
        credential_name |->
            IF Has(test, "credential_name") THEN test.credential_name ELSE Null,
        pages |-> [i \in 1..Len(PagesOf(test)) |->
                      [id |-> PagesOf(test)[i].id, url |-> PagesOf(test)[i].url]],
        tags |-> [i \in 1..Len(TagsOf(test)) |-> TagName(TagsOf(test)[i])],
        has_script |-> HasScript(test)]
    @@ (IF Has(test, "name") THEN [test_name |-> test.name] ELSE NoProps)

\* lines 326-337: the BatchResult, entry i pairing test i with runs[i]
BatchResult(summary, active, runs) ==
    [project |-> summary,
     tests |-> [i \in 1..Len(active) |-> BatchTestSummary(active[i], runs[i])]]

Returned(value) == [kind |-> "ok", value |-> value]
\* line 140: Error(`API ${method} ${path} failed (${response.status}): ...`)
Thrown(request, status) ==
    [kind |-> "error", request |-> request, status |-> status]
NoResult == [kind |-> "none"]

\* ApiClient.request (117-129): one fetch of `${baseUrl}/api/v1${path}`
Request(method, path) == [method |-> method, path |-> path]
GetProjectRequest(id) == Request("GET", <<"projects", id>>)
ListTestsRequest(id) == Request("GET", <<"projects", id, "tests?compact=1">>)
StartRunRequest(testId) == Request("POST", <<"tests", testId, "runs">>)

(***************************************************************************)
(* ApiClient.request (api-client.ts 117-144): the outcome of one request.  *)
(* A response is its status, its body text and what JSON.parse makes of    *)
(* the text.                                                               *)
(***************************************************************************)
NoResponse == [kind |-> "none"]
JsonInvalid == [kind |-> "invalid"]
JsonNull == [kind |-> "null"]
JsonString == [kind |-> "string"]
JsonObject(props) == [kind |-> "object", props |-> props]
Response(status, text, parsed) == [status |-> status, text |-> text, parsed |-> parsed]

\* response.ok
ResponseOk(resp) == resp.status \in 200..299

\* variant: the raw body whatever it holds
errorMessage_RawBody(resp) == resp.text
\* lines 132-139: json.message || text, and text when JSON.parse or the
\* property access throws
errorMessage(resp) ==
    IF resp.parsed.kind = "object" /\ Truthy(resp.parsed.props, "message")
    THEN resp.parsed.props.message
    ELSE resp.text

SyntaxFailure == [kind |-> "syntax-error"]

\* lines 131-143
requestOutcome(req, resp) ==
    IF ~ResponseOk(resp)
    THEN Thrown(req, ToString(resp.status)) @@ [message |-> errorMessage(resp)]
    ELSE IF resp.parsed.kind = "invalid"
    THEN SyntaxFailure
    ELSE Returned(resp.parsed)

Pending == [state |-> "pending"]
\* line 131: any status outside 200..299 makes request throw
ErrorStatuses == { "404", "500" }
Failed(status) == [state |-> "error", status |-> status]
Started(run) == [state |-> "ok", run |-> run]

\* lines 310-313: both requests are sent before the call awaits either
Call ==
    /\ pc = "idle"
    /\ pc' = "loading"
    /\ projectResp' = "pending"
    /\ testsResp' = "pending"
    /\ sent' = sent \o << GetProjectRequest(project.id), ListTestsRequest(project.id) >>
    /\ UNCHANGED <<project, tests, args, activeTests, projectSummary,
                   startResp, svcRuns, result,
                   history, completion,
                   env, response>>

\* getProject (168-171) answered 2xx
GetProjectOk ==
    /\ projectResp = "pending"
    /\ projectResp' = "ok"
    /\ UNCHANGED <<project, tests, args, pc, testsResp, activeTests,
                   projectSummary, startResp, svcRuns, result, sent,
                   history, completion,
                   env, response>>

\* variant: a failed project fetch does not fail the call
GetProjectFail_Ignored(status) ==
    /\ projectResp = "pending"
    /\ projectResp' = status
    /\ UNCHANGED <<project, tests, args, pc, testsResp, activeTests,
                   projectSummary, startResp, svcRuns, result, sent,
                   history, completion,
                   env, response>>

\* getProject answered non-2xx: request throws (131-141), Promise.all rejects
GetProjectFail(status) ==
    /\ projectResp = "pending"
    /\ projectResp' = status
    /\ IF pc = "loading"
       THEN pc' = "failed" /\ result' = Thrown(GetProjectRequest(project.id), status)
       ELSE UNCHANGED <<pc, result,
                   history, completion,
                   env, response>>
    /\ UNCHANGED <<project, tests, args, testsResp, activeTests,
                   projectSummary, startResp, svcRuns, sent,
                   history, completion,
                   env, response>>

\* listTests (214-218) answered 2xx
ListTestsOk ==
    /\ testsResp = "pending"
    /\ testsResp' = "ok"
    /\ UNCHANGED <<project, tests, args, pc, projectResp, activeTests,
                   projectSummary, startResp, svcRuns, result, sent,
                   history, completion,
                   env, response>>

\* listTests answered non-2xx
ListTestsFail(status) ==
    /\ testsResp = "pending"
    /\ testsResp' = status
    /\ IF pc = "loading"
       THEN pc' = "failed" /\ result' = Thrown(ListTestsRequest(project.id), status)
       ELSE UNCHANGED <<pc, result,
                   history, completion,
                   env, response>>
    /\ UNCHANGED <<project, tests, args, projectResp, activeTests,
                   projectSummary, startResp, svcRuns, sent,
                   history, completion,
                   env, response>>

\* variant: an empty selection is an error
Select_EmptyIsError ==
    /\ pc = "loading"
    /\ projectResp = "ok"
    /\ testsResp = "ok"
    /\ LET sel == prepareSelection(project, tests, args)
       IN /\ activeTests' = sel.activeTests
          /\ projectSummary' = sel.projectSummary
          /\ IF Len(sel.activeTests) = 0
             THEN /\ pc' = "failed"
                  /\ result' = Thrown(ListTestsRequest(project.id), "404")
                  /\ startResp' = <<>>
                  /\ sent' = sent
             ELSE /\ pc' = "starting"
                  /\ result' = result
                  /\ startResp' = [i \in 1..Len(sel.activeTests) |-> Pending]
                  /\ sent' = sent \o [i \in 1..Len(sel.activeTests) |->
                                         StartRunRequest(sel.activeTests[i].id)]
    /\ UNCHANGED <<project, tests, args, projectResp, testsResp, svcRuns,
                   history, completion,
                   env, response>>

\* lines 315-324: filter, summarise, return at once when nothing is left,
\* otherwise startBatchRuns (405-410) sends one start-run request per test
Select ==
    /\ pc = "loading"
    /\ projectResp = "ok"
    /\ testsResp = "ok"
    /\ LET sel == prepareSelection(project, tests, args)
       IN /\ activeTests' = sel.activeTests
          /\ projectSummary' = sel.projectSummary
          /\ IF Len(sel.activeTests) = 0
             THEN /\ pc' = "done"
                  /\ result' = Returned([project |-> sel.projectSummary, tests |-> <<>>])
                  /\ startResp' = <<>>
                  /\ sent' = sent
             ELSE /\ pc' = "starting"
                  /\ result' = result
                  /\ startResp' = [i \in 1..Len(sel.activeTests) |-> Pending]
                  /\ sent' = sent \o [i \in 1..Len(sel.activeTests) |->
                                         StartRunRequest(sel.activeTests[i].id)]
    /\ UNCHANGED <<project, tests, args, projectResp, testsResp, svcRuns,
                   history, completion,
                   env, response>>

\* startRun (277-280) answered 2xx: the service has created a run in
\* status running
NewRun(testId) ==
    [id |-> ToString(Len(svcRuns) + 1), test_id |-> testId, status |-> "running"]

\* variant: the service hands out a run of the test that is still running
StartRunOk_ReuseInFlight(i) ==
    LET inFlight == SelectSeq(svcRuns, LAMBDA r : r.test_id = activeTests[i].id
                                                  /\ r.status = "running")
    IN /\ startResp[i].state = "pending"
       /\ IF inFlight = << >>
          THEN /\ svcRuns' = Append(svcRuns, NewRun(activeTests[i].id))
               /\ startResp' = [startResp EXCEPT ![i] = Started(NewRun(activeTests[i].id))]
          ELSE /\ svcRuns' = svcRuns
               /\ startResp' = [startResp EXCEPT ![i] = Started(inFlight[1])]
       /\ UNCHANGED <<project, tests, args, pc, projectResp, testsResp,
                      activeTests, projectSummary, result, sent,
                      history, completion,
                   env, response>>

StartRunOk(i) ==
    /\ startResp[i].state = "pending"
    /\ svcRuns' = Append(svcRuns, NewRun(activeTests[i].id))
    /\ startResp' = [startResp EXCEPT ![i] = Started(NewRun(activeTests[i].id))]
    /\ UNCHANGED <<project, tests, args, pc, projectResp, testsResp,
                   activeTests, projectSummary, result, sent,
                   history, completion,
                   env, response>>

\* startRun answered non-2xx: Promise.all (409) rejects with the first failure
\* variant: a failed start-run does not fail the call
StartRunFail_Swallowed(i, status) ==
    /\ startResp[i].state = "pending"
    /\ startResp' = [startResp EXCEPT ![i] = Failed(status)]
    /\ UNCHANGED <<project, tests, args, pc, projectResp, testsResp,
                   activeTests, projectSummary, svcRuns, result, sent,
                   history, completion,
                   env, response>>

\* variant: a failed start-run is sent again
StartRunFail_Retried(i, status) ==
    /\ startResp[i].state = "pending"
    /\ sent' = Append(sent, StartRunRequest(activeTests[i].id))
    /\ UNCHANGED <<project, tests, args, pc, projectResp, testsResp,
                   activeTests, projectSummary, startResp, svcRuns, result,
                   history, completion,
                   env, response>>

\* variant: a failed start-run closes the runs already started
StartRunFail_ClosesStarted(i, status) ==
    /\ startResp[i].state = "pending"
    /\ startResp' = [startResp EXCEPT ![i] = Failed(status)]
    /\ IF pc = "starting"
       THEN pc' = "failed" /\ result' = Thrown(StartRunRequest(activeTests[i].id), status)
       ELSE UNCHANGED <<pc, result,
                   env, response>>
    /\ svcRuns' = [k \in 1..Len(svcRuns) |-> [svcRuns[k] EXCEPT !.status = "error"]]
    /\ sent' = sent \o [k \in 1..Len(svcRuns) |-> Request("PUT", << "runs", svcRuns[k].id >>)]
    /\ UNCHANGED <<project, tests, args, projectResp, testsResp,
                   activeTests, projectSummary, history, completion,
                   env, response>>

StartRunFail(i, status) ==
    /\ startResp[i].state = "pending"
    /\ startResp' = [startResp EXCEPT ![i] = Failed(status)]
    /\ IF pc = "starting"
       THEN pc' = "failed" /\ result' = Thrown(StartRunRequest(activeTests[i].id), status)
       ELSE UNCHANGED <<pc, result,
                   history, completion,
                   env, response>>
    /\ UNCHANGED <<project, tests, args, projectResp, testsResp,
                   activeTests, projectSummary, svcRuns, sent,
                   history, completion,
                   env, response>>

\* variant: the runs are paired in the order the service created them
Return_CompletionOrder ==
    /\ pc = "starting"
    /\ \A i \in 1..Len(startResp) : startResp[i].state = "ok"
    /\ pc' = "done"
    /\ result' = Returned(BatchResult(projectSummary, activeTests,
                              [i \in 1..Len(startResp) |-> svcRuns[i]]))
    /\ UNCHANGED <<project, tests, args, projectResp, testsResp,
                   activeTests, projectSummary, startResp, svcRuns, sent,
                   history, completion,
                   env, response>>

\* lines 326-337: every start-run has resolved
Return ==
    /\ pc = "starting"
    /\ \A i \in 1..Len(startResp) : startResp[i].state = "ok"
    /\ pc' = "done"
    /\ result' = Returned(BatchResult(projectSummary, activeTests,
                              [i \in 1..Len(startResp) |-> startResp[i].run]))
    /\ UNCHANGED <<project, tests, args, projectResp, testsResp,
                   activeTests, projectSummary, startResp, svcRuns, sent,
                   history, completion,
                   env, response>>

(***************************************************************************)
(* The inputs the specifications draw from.  A test's id is its position   *)
(* in the catalogue: the service's ids are unique.                         *)
(***************************************************************************)
StatusParts ==
    { NoProps, [status |-> "active"], [status |-> "draft"], [status |-> "archived"] }

StringTag(s) == [kind |-> "string", val |-> s]
ObjectTag(s) == [kind |-> "object", name |-> s]
NamelessTag == [kind |-> "object"]
Page(id, url) == [id |-> id, url |-> url]

\* name, tags, pages and script state of a test
FilterShapes ==
    { [name |-> <<"L","o","/","b">>,
       tags |-> << StringTag(<<"U","i">>) >>,
       has_script |-> TRUE],
      [name |-> <<"x">>,
       tags |-> << StringTag(<<"u","i","x">>), ObjectTag(<<"u","I">>) >>,
       pages |-> << Page("p1", <<"/","a">>), Page("p3", <<"/","B">>) >>,
       script |-> "goto"],
      [name |-> <<"b","l","O","b"," ","t","a","g",":","u","i">>,
       tags |-> << NamelessTag >>,
       pages |-> << Page("p1", <<"/","a">>), Page("p2", <<"/","a","/","b">>) >>],
      [tags |-> << StringTag(<<"u","i","x">>) >>,
       pages |-> << >>,
       has_script |-> FALSE,
       script |-> "goto"] }

FilterParts ==
    { NoProps,
      [filter |-> << >>],
      [filter |-> <<"t","a","g",":">>],
      [filter |-> <<"t","a","g",":","u","I">>],
      [filter |-> <<"/","b">>],
      [filter |-> <<"L","O">>] }

IdParts ==
    { NoProps,
      [test_ids |-> << >>],
      [test_ids |-> << "2", "9" >>],
      [test_ids |-> << "2", "1" >>] }

CredentialNameParts ==
    { NoProps,
      [credential_name |-> Null],
      [credential_name |-> ""],
      [credential_name |-> "admin"],
      [credential_name |-> "viewer"],
      [credential_name |-> "ghost"] }

Admin == [name |-> "admin", email |-> "a@x", password |-> "pa"]
Viewer == [name |-> "viewer", email |-> "v@x", password |-> "pv"]

AuthModeParts ==
    { NoProps, [auth_mode |-> "none"], [auth_mode |-> "existing_user"],
      [auth_mode |-> "new_user"] }

CredentialsParts ==
    { NoProps,
      [credentials |-> << >>],
      [credentials |-> << Admin >>],
      [credentials |-> << Admin, Viewer >>],
      [credentials |-> << Viewer, Admin >>] }

AuthFields ==
    [login_url |-> "/login", register_url |-> "/register",
     login_instructions |-> "log in", register_instructions |-> "register"]

UrlParts == { NoProps, [base_url |-> "http://app"], [base_url |-> "http://app"] @@ AuthFields }

ProjectBase == [id |-> "P", name |-> "Shop"]

\* the catalogues of at most MaxTests tests whose properties come from pool
Catalogues(pool) ==
    { [i \in 1..Len(l) |-> ("id" :> ToString(i)) @@ l[i]] :
        l \in UNION { [1..n -> pool] : n \in 0..MaxTests } }

InitCall ==
    /\ pc = "idle"
    /\ projectResp = "unsent"
    /\ testsResp = "unsent"
    /\ activeTests = << >>
    /\ projectSummary = NoProps
    /\ startResp = << >>
    /\ svcRuns = << >>
    /\ result = NoResult
    /\ sent = << >>
    /\ history = << >>
    /\ completion = [state |-> "idle"]
    /\ env = [GREENRUN_API_TOKEN |-> "secret"]
    /\ response = NoResponse

\* filterTests on every catalogue, filter expression and id list
InitFilter ==
    /\ project = ProjectBase @@ [auth_mode |-> "none"]
    /\ tests \in Catalogues({ st @@ sh : st \in StatusParts, sh \in FilterShapes })
    /\ args \in { f @@ ids : f \in FilterParts, ids \in IdParts }
    /\ InitCall

\* buildProjectSummary on every project and every selection of tests
InitScope ==
    /\ project \in { ProjectBase @@ am @@ cr @@ u :
                        am \in AuthModeParts, cr \in CredentialsParts, u \in UrlParts }
    /\ tests \in Catalogues({ [name |-> <<"x">>] @@ st @@ cn :
                        st \in { [status |-> "active"], [status |-> "draft"] },
                        cn \in CredentialNameParts })
    /\ args = NoProps
    /\ InitCall

\* the whole call, failures included
Init ==
    /\ project \in { ProjectBase @@ am @@ [credentials |-> << Admin, Viewer >>] @@ AuthFields :
                        am \in { [auth_mode |-> "none"], [auth_mode |-> "existing_user"] } }
    /\ tests \in Catalogues({ [name |-> n] @@ st @@ cn :
                        n \in { <<"L","o">>, <<"x">> },
                        st \in { [status |-> "active"], [status |-> "draft"] },
                        cn \in { NoProps, [credential_name |-> ""],
                                 [credential_name |-> "admin"],
                                 [credential_name |-> "viewer"] } })
    /\ args \in { NoProps, [filter |-> <<"L","O">>], [test_ids |-> << "2" >>] }
    /\ InitCall

(***************************************************************************)
(* Further tool calls on the same server (server.ts): the client keeps no  *)
(* state between calls, the service keeps the runs.                        *)
(***************************************************************************)
\* server.ts 207-223: prepare_test_batch is invoked again once the earlier
\* call and all of its requests have been answered
CallAgain ==
    /\ pc \in { "done", "failed" }
    /\ Len(history) + 1 < MaxCalls
    /\ projectResp # "pending"
    /\ testsResp # "pending"
    /\ \A i \in 1..Len(startResp) : startResp[i].state # "pending"
    /\ history' = Append(history, result)
    /\ pc' = "loading"
    /\ projectResp' = "pending"
    /\ testsResp' = "pending"
    /\ activeTests' = << >>
    /\ projectSummary' = NoProps
    /\ startResp' = << >>
    /\ result' = NoResult
    /\ sent' = sent \o << GetProjectRequest(project.id), ListTestsRequest(project.id) >>
    /\ UNCHANGED <<project, tests, args, svcRuns, completion,
                   env, response>>

\* server.ts 227-235: the start_run tool, api.startRun(args.test_id)
StartRunDirect(testId) ==
    /\ Len(history) + 1 < MaxCalls
    /\ svcRuns' = Append(svcRuns, NewRun(testId))
    /\ sent' = Append(sent, StartRunRequest(testId))
    /\ history' = Append(history, Returned([run |-> NewRun(testId)]))
    /\ UNCHANGED <<project, tests, args, pc, projectResp, testsResp,
                   activeTests, projectSummary, startResp, result, completion,
                   env, response>>

\* the statuses a run is completed with (server.ts 242)
RunStatuses == { "passed", "failed", "error" }
\* what a caller may put into the status argument of a tool call
StatusInputs == RunStatuses \cup { "running", "skipped" }
BatchCompleteRequest == Request("PUT", << "runs", "batch" >>)

\* api-client.ts 288-289: batchCompleteRuns(runs) sends every entry in one
\* PUT /runs/batch; the entries are the runs of the batch just prepared
\* the batch_complete_runs tool checks every status against the same enum
\* (part_005 335) before its handler runs
BatchCompleteCall(statuses) ==
    /\ completion.state = "idle"
    /\ pc = "done"
    /\ result.kind = "ok"
    /\ Len(result.value.tests) > 0
    /\ LET runs == [i \in 1..Len(result.value.tests) |->
                       [run_id |-> result.value.tests[i].run_id,
                        status |-> statuses[i]]]
       IN IF \A i \in 1..Len(runs) : runs[i].status \in RunStatuses
          THEN /\ completion' = [state |-> "pending", runs |-> runs]
               /\ sent' = Append(sent, BatchCompleteRequest @@ [body |-> [runs |-> runs]])
          ELSE /\ completion' = [state |-> "invalid", runs |-> runs]
               /\ sent' = sent
    /\ UNCHANGED <<project, tests, args, pc, projectResp, testsResp,
                   activeTests, projectSummary, startResp, svcRuns, result,
                   history,
                   env, response>>

\* the run after the service has recorded an entry
Completed(run, entry) == [run EXCEPT !.status = entry.status]

\* PUT /runs/batch answered 2xx with { completed: number } (288-289).  Which
\* entries the service records is the service's choice: every subset of the
\* entries is a possible outcome.
BatchCompleteOk(applied) ==
    /\ completion.state = "pending"
    /\ svcRuns' = [k \in 1..Len(svcRuns) |->
                     IF \E i \in applied : completion.runs[i].run_id = svcRuns[k].id
                     THEN Completed(svcRuns[k],
                                    completion.runs[CHOOSE i \in applied :
                                        completion.runs[i].run_id = svcRuns[k].id])
                     ELSE svcRuns[k]]
    /\ completion' = [state |-> "ok", runs |-> completion.runs,
                      value |-> [completed |-> Cardinality(applied)]]
    /\ UNCHANGED <<project, tests, args, pc, projectResp, testsResp,
                   activeTests, projectSummary, startResp, result, sent,
                   history,
                   env, response>>

\* PUT /runs/batch answered non-2xx: request throws (131-141) for the call
BatchCompleteFail(status) ==
    /\ completion.state = "pending"
    /\ completion' = [state |-> "error", runs |-> completion.runs,
                      error |-> Thrown(BatchCompleteRequest, status)]
    /\ UNCHANGED <<project, tests, args, pc, projectResp, testsResp,
                   activeTests, projectSummary, startResp, svcRuns, result,
                   sent, history,
                   env, response>>

(***************************************************************************)
(* The complete_run tool (server.ts 237-252) and the sweep tool            *)
(* (server.ts 188-203, api-client.ts 261-273).                             *)
(***************************************************************************)
ToolOutcomes(tool) == SelectSeq(history, LAMBDA h : Has(h, "tool") /\ h.tool = tool)
CompleteRunRequest(runId, data) == Request("PUT", << "runs", runId >>) @@ [body |-> data]

\* variant: the status argument is passed on unchecked
CompleteRunTool_AnyStatus(k, status, answer) ==
    /\ ToolOutcomes("complete_run") = << >>
    /\ k \in 1..Len(svcRuns)
    /\ sent' = Append(sent, CompleteRunRequest(svcRuns[k].id, [status |-> status]))
    /\ IF answer = "200"
       THEN /\ svcRuns' = [svcRuns EXCEPT ![k] = Completed(svcRuns[k], [status |-> status])]
            /\ history' = Append(history,
                   Returned([run |-> Completed(svcRuns[k], [status |-> status])])
                       @@ [tool |-> "complete_run"])
       ELSE /\ svcRuns' = svcRuns
            /\ history' = Append(history,
                   Thrown(Request("PUT", << "runs", svcRuns[k].id >>), answer)
                       @@ [tool |-> "complete_run"])
    /\ UNCHANGED <<project, tests, args, pc, projectResp, testsResp,
                   activeTests, projectSummary, startResp, result, completion,
                   env, response>>

\* complete_run: a status outside the enum is refused by the tool's schema
\* (242) and the handler does not run; otherwise api.completeRun (283-285)
\* sends PUT /runs/{id} with the status, and the service records it or
\* answers non-2xx
CompleteRunTool(k, status, answer) ==
    /\ ToolOutcomes("complete_run") = << >>
    /\ k \in 1..Len(svcRuns)
    /\ IF status \notin RunStatuses
       THEN /\ sent' = sent
            /\ svcRuns' = svcRuns
            /\ history' = Append(history,
                   [kind |-> "invalid", tool |-> "complete_run",
                    args |-> [run_id |-> svcRuns[k].id, status |-> status]])
       ELSE /\ sent' = Append(sent, CompleteRunRequest(svcRuns[k].id, [status |-> status]))
            /\ IF answer = "200"
               THEN /\ svcRuns' = [svcRuns EXCEPT
                                      ![k] = Completed(svcRuns[k], [status |-> status])]
                    /\ history' = Append(history,
                           Returned([run |-> Completed(svcRuns[k], [status |-> status])])
                               @@ [tool |-> "complete_run"])
               ELSE /\ svcRuns' = svcRuns
                    /\ history' = Append(history,
                           Thrown(Request("PUT", << "runs", svcRuns[k].id >>), answer)
                               @@ [tool |-> "complete_run"])
    /\ UNCHANGED <<project, tests, args, pc, projectResp, testsResp,
                   activeTests, projectSummary, startResp, result, completion,
                   env, response>>

\* lines 262-271: URLSearchParams with one pages[] entry per page when pages
\* is given, then url_pattern when it is a non-empty string
SweepQuery(params) ==
       (IF Has(params, "pages")
        THEN [i \in 1..Len(params.pages) |-> << "pages[]", params.pages[i] >>]
        ELSE << >>)
    \o (IF Truthy(params, "url_pattern")
        THEN << << "url_pattern", params.url_pattern >> >>
        ELSE << >>)

\* line 272: GET /projects/{id}/sweep?{query}
SweepRequest(projectId, params) ==
    Request("GET", << "projects", projectId, "sweep" >>) @@ [query |-> SweepQuery(params)]

\* variant: sweep starts a run for every affected test
Sweep_StartsRuns(params, affected, answer) ==
    /\ ToolOutcomes("sweep") = << >>
    /\ pc # "idle"
    /\ sent' = Append(sent, SweepRequest(project.id, params))
    /\ svcRuns' = svcRuns \o [i \in 1..Len(tests) |->
                       [id |-> ToString(Len(svcRuns) + i), test_id |-> tests[i].id,
                        status |-> "running"]]
    /\ history' = Append(history,
           Returned([affected |-> { tests[i].id : i \in affected }]) @@ [tool |-> "sweep"])
    /\ UNCHANGED <<project, tests, args, pc, projectResp, testsResp,
                   activeTests, projectSummary, startResp, result, completion,
                   env, response>>

\* sweep: one GET; which tests the service reports is the service's choice
Sweep(params, affected, answer) ==
    /\ ToolOutcomes("sweep") = << >>
    /\ pc # "idle"
    /\ sent' = Append(sent, SweepRequest(project.id, params))
    /\ history' = Append(history,
           IF answer = "200"
           THEN Returned([affected |-> { tests[i].id : i \in affected }]) @@ [tool |-> "sweep"]
           ELSE Thrown(Request("GET", << "projects", project.id, "sweep" >>), answer)
                    @@ [tool |-> "sweep"])
    /\ UNCHANGED <<project, tests, args, pc, projectResp, testsResp,
                   activeTests, projectSummary, startResp, svcRuns, result,
                   completion, env, response>>

SweepParams ==
    { p @@ u : p \in { NoProps, [pages |-> << >>], [pages |-> << "/checkout/confirm" >>] },
               u \in { NoProps, [url_pattern |-> ""], [url_pattern |-> "/checkout*"] } }

\* prepare_test_batch and start_run: tests of one simple project
InitRuns ==
    /\ project = ProjectBase @@ [auth_mode |-> "none"]
    /\ tests \in Catalogues({ [name |-> <<"L","o">>, status |-> "active"] })
    /\ args \in { NoProps, [test_ids |-> << "1" >>] }
    /\ InitCall

(***************************************************************************)
(* startServer (server.ts 6-18, 275-276) and one tool call through         *)
(* ApiClient.request.                                                      *)
(***************************************************************************)
\* lines 8-13: exit(1) when the token is undefined or empty; otherwise the
\* client is built, the tools are registered and the server is connected
StartServer ==
    /\ pc = "boot"
    /\ pc' = IF Truthy(env, "GREENRUN_API_TOKEN") THEN "idle" ELSE "exited"
    /\ UNCHANGED <<project, tests, args, projectResp, testsResp, activeTests,
                   projectSummary, startResp, svcRuns, result, sent, history,
                   completion, env, response>>

\* a tool handler awaits one ApiClient operation
ToolCall(req) ==
    /\ pc = "idle"
    /\ result = NoResult
    /\ sent' = Append(sent, req)
    /\ result' = requestOutcome(req, response)
    /\ pc' = IF ResponseOk(response) /\ response.parsed.kind # "invalid"
             THEN "done" ELSE "failed"
    /\ UNCHANGED <<project, tests, args, projectResp, testsResp, activeTests,
                   projectSummary, startResp, svcRuns, history, completion,
                   env, response>>

EnvParts == { NoProps, [GREENRUN_API_TOKEN |-> ""], [GREENRUN_API_TOKEN |-> "secret"] }
HttpStatuses == { 200, 201, 299, 300, 401, 404, 500 }
BodyParts ==
    { << "Not Found", JsonInvalid >>,
      << "", JsonInvalid >>,
      << "{\"message\":\"No project\"}", JsonObject([message |-> "No project"]) >>,
      << "{\"message\":\"\"}", JsonObject([message |-> ""]) >>,
      << "{\"message\":null}", JsonObject([message |-> Null]) >>,
      << "{\"error\":\"x\"}", JsonObject([error |-> "x"]) >>,
      << "null", JsonNull >>,
      << "\"oops\"", JsonString >> }
ToolRequests ==
    { GetProjectRequest("P"), ListTestsRequest("P"), StartRunRequest("1"),
      Request("PUT", << "runs", "1" >>), Request("PUT", << "runs", "batch" >>) }

\* the process before startServer, and the answer the service will give
InitServer ==
    /\ env \in EnvParts
    /\ response \in { Response(st, b[1], b[2]) : st \in HttpStatuses, b \in BodyParts }
    /\ pc = "boot"
    /\ project = ProjectBase @@ [auth_mode |-> "none"]
    /\ tests = << >>
    /\ args = NoProps
    /\ projectResp = "unsent"
    /\ testsResp = "unsent"
    /\ activeTests = << >>
    /\ projectSummary = NoProps
    /\ startResp = << >>
    /\ svcRuns = << >>
    /\ result = NoResult
    /\ sent = << >>
    /\ history = << >>
    /\ completion = [state |-> "idle"]

NextServer ==
    \/ StartServer
    \/ \E req \in ToolRequests : ToolCall(req)

\* the call up to the point where the tests are selected and summarised
NextSelect ==
    \/ Call
    \/ GetProjectOk
    \/ ListTestsOk
    \/ Select

Next ==
    \/ Call
    \/ GetProjectOk
    \/ \E status \in ErrorStatuses : GetProjectFail(status)
    \/ ListTestsOk
    \/ \E status \in ErrorStatuses : ListTestsFail(status)
    \/ Select
    \/ \E i \in 1..Len(startResp) : StartRunOk(i)
    \/ \E i \in 1..Len(startResp), status \in ErrorStatuses : StartRunFail(i, status)
    \/ Return

Spec == Init /\ [][Next]_vars
SpecFilter == InitFilter /\ [][Next]_vars
SpecScope == InitScope /\ [][NextSelect]_vars

\* prepare_test_batch with further calls that start runs
NextRuns ==
    \/ Next
    \/ CallAgain
    \/ \E i \in 1..Len(tests) : StartRunDirect(tests[i].id)

\* prepare_test_batch followed by batch_complete_runs for the prepared runs
NextComplete ==
    \/ Next
    \/ \E statuses \in [1..Len(activeTests) -> StatusInputs] : BatchCompleteCall(statuses)
    \/ \E applied \in SUBSET (1..Len(activeTests)) : BatchCompleteOk(applied)
    \/ \E status \in ErrorStatuses : BatchCompleteFail(status)
    \/ \E k \in 1..Len(svcRuns), status \in StatusInputs, answer \in { "200" } \cup ErrorStatuses :
          CompleteRunTool(k, status, answer)

\* prepare_test_batch with a sweep and a complete_run at any point after
\* its start
NextSweep ==
    \/ Next
    \/ \E k \in 1..Len(svcRuns), status \in StatusInputs, answer \in { "200" } \cup ErrorStatuses :
          CompleteRunTool(k, status, answer)
    \/ \E params \in SweepParams, affected \in SUBSET (1..Len(tests)),
          answer \in { "200" } \cup ErrorStatuses :
          Sweep(params, affected, answer)

SpecRuns == InitRuns /\ [][NextRuns]_vars
SpecComplete == InitRuns /\ [][NextComplete]_vars
SpecSweep == InitRuns /\ [][NextSweep]_vars
SpecServer == InitServer /\ [][NextServer]_vars

(***************************************************************************)
(* Vocabulary of the properties, stated without the operators above.       *)
(***************************************************************************)
\* the call has selected its tests and built its summary
Selected ==
    /\ pc \in {"starting", "done", "failed"}
    /\ projectResp = "ok"
    /\ testsResp = "ok"

StatusIsActive(t) == "status" \in DOMAIN t /\ t.status = "active"

IdsGiven == "test_ids" \in DOMAIN args /\ args.test_ids # << >>
ExprGiven == "filter" \in DOMAIN args /\ args.filter # << >>

Listed(t) == \E k \in DOMAIN args.test_ids : args.test_ids[k] = t.id

SameLetter(c, d) ==
    \/ c = d
    \/ \E k \in DOMAIN UpperChars : {c, d} = {UpperChars[k], LowerChars[k]}

EqualIgnoringCase(s, u) ==
    /\ Len(s) = Len(u)
    /\ \A k \in 1..Len(s) : SameLetter(s[k], u[k])

ContainsExactly(s, sub) ==
    \E off \in 0..(Len(s) - Len(sub)) : \A k \in 1..Len(sub) : s[off + k] = sub[k]

ContainsIgnoringCase(s, sub) ==
    \E off \in 0..(Len(s) - Len(sub)) : \A k \in 1..Len(sub) : SameLetter(s[off + k], sub[k])

ExprIsTag == ExprGiven /\ Len(args.filter) >= 4 /\ SubSeq(args.filter, 1, 4) = <<"t","a","g",":">>
ExprIsPage == ExprGiven /\ args.filter[1] = "/"
ExprIsName == ExprGiven /\ ~ExprIsTag /\ ~ExprIsPage

TagIsNamed(tag) == tag.kind = "string" \/ "name" \in DOMAIN tag
NameOfTag(tag) == IF tag.kind = "string" THEN tag.val ELSE tag.name

HasTagNamed(t, wanted) ==
    /\ "tags" \in DOMAIN t
    /\ \E k \in DOMAIN t.tags :
          TagIsNamed(t.tags[k]) /\ EqualIgnoringCase(NameOfTag(t.tags[k]), wanted)

HasPageContaining(t, expr) ==
    /\ "pages" \in DOMAIN t
    /\ \E k \in DOMAIN t.pages : ContainsExactly(t.pages[k].url, expr)

NameContains(t, expr) ==
    "name" \in DOMAIN t /\ ContainsIgnoringCase(t.name, expr)

\* every tag is a string or an object with a name, or a name is asked for:
\* an object without a name is compared as the empty name (name || ''), which
\* only the expression "tag:" matches
TagsInScope ==
    \/ Len(args.filter) > 4
    \/ \A i \in DOMAIN tests :
          "tags" \in DOMAIN tests[i] =>
              \A k \in DOMAIN tests[i].tags : TagIsNamed(tests[i].tags[k])

AuthIsNone == "auth_mode" \in DOMAIN project /\ project.auth_mode = "none"
AuthNotNone == "auth_mode" \in DOMAIN project /\ project.auth_mode # "none"

\* the credential list a summary carries: none when it has no such property
ListedCredentials(summary) ==
    IF "credentials" \in DOMAIN summary THEN summary.credentials ELSE << >>

ProjectCredentials ==
    IF "credentials" \in DOMAIN project THEN project.credentials ELSE << >>

\* the credential names the tests of a list carry: every value but null, and
\* every value but null and the empty string
NonNullNames(ts) ==
    { ts[i].credential_name :
        i \in { j \in DOMAIN ts : "credential_name" \in DOMAIN ts[j]
                                  /\ ts[j].credential_name # Null } }
NonEmptyNames(ts) == NonNullNames(ts) \ { "" }

NamedByATest(cred, batch) ==
    \E i \in DOMAIN batch.tests : batch.tests[i].credential_name = cred.name

C3_NoneSummary ==
    (Selected /\ AuthIsNone) =>
        /\ DOMAIN projectSummary
              = {"id", "name", "auth_mode"} \cup ({"base_url"} \cap DOMAIN project)
        /\ projectSummary.id = project.id
        /\ projectSummary.name = project.name
        /\ projectSummary.auth_mode = "none"
        /\ "base_url" \in DOMAIN project => projectSummary.base_url = project.base_url

\* a project with auth_mode none that still holds credentials and auth
\* fields, and a selected test that references one of the credentials
C3_Witness ==
    /\ Selected /\ AuthIsNone
    /\ Len(ProjectCredentials) = 2
    /\ {"login_url", "register_url", "login_instructions", "register_instructions"}
          \subseteq DOMAIN project
    /\ "admin" \in NonEmptyNames(activeTests)

C5_FilterPrecedence ==
    (Selected /\ IdsGiven) =>
        activeTests = SelectSeq(tests, LAMBDA t : StatusIsActive(t) /\ Listed(t))

\* an id list and a tag expression together: a listed test without the tag
\* is returned, a test with the tag that is not listed is left out
C5_Witness ==
    /\ Selected /\ IdsGiven /\ ExprIsTag
    /\ \E i \in DOMAIN activeTests : ~HasTagNamed(activeTests[i], SubSeq(args.filter, 5, Len(args.filter)))
    /\ \E i \in DOMAIN tests :
          /\ StatusIsActive(tests[i])
          /\ HasTagNamed(tests[i], SubSeq(args.filter, 5, Len(args.filter)))
          /\ ~Listed(tests[i])

(***************************************************************************)
(* C6.  Every test filterTests returns has status active, on every path,   *)
(* and so has every test of a BatchResult: draft, archived and status-less *)
(* tests are left out, also when their id is listed explicitly.            *)
(***************************************************************************)
C6_OnlyActive ==
    /\ Selected => \A i \in DOMAIN activeTests : StatusIsActive(activeTests[i])
    /\ result.kind = "ok" =>
          \A i \in DOMAIN result.value.tests :
              \E j \in DOMAIN tests :
                  /\ tests[j].id = result.value.tests[i].test_id
                  /\ StatusIsActive(tests[j])

\* a batch was returned for an id list that also names a test that is not active
C6_Witness ==
    /\ result.kind = "ok"
    /\ Len(result.value.tests) = 1
    /\ IdsGiven
    /\ \E j \in DOMAIN tests : Listed(tests[j]) /\ ~StatusIsActive(tests[j])

(***************************************************************************)
(* C7.  Tag filter: with no explicit ids and an expression starting with   *)
(* "tag:", filterTests returns exactly the active tests with at least one  *)
(* tag, a string or an object with a name, whose name equals the rest of   *)
(* the expression as a whole string, letter case ignored.                  *)
(***************************************************************************)
C7_TagFilter ==
    (Selected /\ ~IdsGiven /\ ExprIsTag /\ TagsInScope) =>
        activeTests = SelectSeq(tests, LAMBDA t :
            StatusIsActive(t) /\ HasTagNamed(t, SubSeq(args.filter, 5, Len(args.filter))))

\* "tag:uI" keeps a test tagged "Ui" and drops an active test tagged "uix"
C7_Witness ==
    /\ Selected /\ ~IdsGiven /\ ExprIsTag /\ TagsInScope
    /\ Len(args.filter) > 4
    /\ Len(activeTests) = 1
    /\ \E i \in DOMAIN tests :
          /\ StatusIsActive(tests[i])
          /\ "tags" \in DOMAIN tests[i]
          /\ \E k \in DOMAIN tests[i].tags :
                /\ TagIsNamed(tests[i].tags[k])
                /\ ContainsIgnoringCase(NameOfTag(tests[i].tags[k]),
                                        SubSeq(args.filter, 5, Len(args.filter)))
          /\ ~HasTagNamed(tests[i], SubSeq(args.filter, 5, Len(args.filter)))

(***************************************************************************)
(* C8.  Page filter: with no explicit ids and an expression starting with  *)
(* "/", filterTests returns exactly the active tests with at least one     *)
(* page whose URL contains the whole expression; a test without pages is   *)
(* never returned.                                                         *)
(***************************************************************************)
C8_PageFilter ==
    (Selected /\ ~IdsGiven /\ ExprIsPage) =>
        activeTests = SelectSeq(tests, LAMBDA t :
            StatusIsActive(t) /\ HasPageContaining(t, args.filter))

\* "/b" keeps a test with page "/a/b" and drops active tests with no page,
\* or with pages that match only when case is ignored
C8_Witness ==
    /\ Selected /\ ~IdsGiven /\ ExprIsPage
    /\ Len(activeTests) = 1
    /\ \E i \in DOMAIN tests :
          /\ StatusIsActive(tests[i])
          /\ "pages" \in DOMAIN tests[i]
          /\ \E k \in DOMAIN tests[i].pages :
                ContainsIgnoringCase(tests[i].pages[k].url, args.filter)
          /\ ~HasPageContaining(tests[i], args.filter)

(***************************************************************************)
(* C9.  Name filter: with no explicit ids and a non-empty expression that  *)
(* starts with neither "tag:" nor "/", filterTests returns exactly the     *)
(* active tests whose name contains the expression, letter case ignored.   *)
(***************************************************************************)
C9_NameFilter ==
    (Selected /\ ~IdsGiven /\ ExprIsName) =>
        activeTests = SelectSeq(tests, LAMBDA t :
            StatusIsActive(t) /\ NameContains(t, args.filter))

\* "LO" keeps "blOb", which contains it only when case is ignored, and
\* drops an active test with another name
C9_Witness ==
    /\ Selected /\ ~IdsGiven /\ ExprIsName
    /\ \E i \in DOMAIN activeTests : ~ContainsExactly(activeTests[i].name, args.filter)
    /\ \E i \in DOMAIN tests : StatusIsActive(tests[i]) /\ ~NameContains(tests[i], args.filter)

(***************************************************************************)
(* C10.  With no explicit ids (absent or an empty list) and no filter      *)
(* expression (absent or empty), filterTests returns all active tests and  *)
(* nothing else.                                                           *)
(***************************************************************************)
C10_NoFilter ==
    (Selected /\ ~IdsGiven /\ ~ExprGiven) =>
        activeTests = SelectSeq(tests, StatusIsActive)

\* an empty id list and an empty expression: both active tests are returned
C10_Witness ==
    /\ Selected
    /\ "test_ids" \in DOMAIN args /\ args.test_ids = << >>
    /\ "filter" \in DOMAIN args /\ args.filter = << >>
    /\ Len(activeTests) = 2
    /\ Len(tests) = 2


(***************************************************************************)
(* C11.  The filter is stable: the tests filterTests returns are a         *)
(* subsequence of the listing it was given, each kept test at a later      *)
(* position than the kept test before it, whatever the order of the ids    *)
(* the caller listed.                                                      *)
(***************************************************************************)
IsSubsequenceOf(sub, whole) ==
    \E f \in [1..Len(sub) -> 1..Len(whole)] :
        /\ \A i \in 1..Len(sub) : sub[i] = whole[f[i]]
        /\ \A i, j \in 1..Len(sub) : i < j => f[i] < f[j]

C11_StableFilter == Selected => IsSubsequenceOf(activeTests, tests)

C11_Witness ==
    /\ Selected /\ IdsGiven
    /\ Len(activeTests) = 2 /\ Len(args.test_ids) = 2
    /\ args.test_ids[1] = activeTests[2].id
    /\ args.test_ids[2] = activeTests[1].id


(***************************************************************************)
(* Vocabulary of the fan-out claims.                                       *)
(***************************************************************************)
SentStart(testId) ==
    \E k \in DOMAIN sent :
        sent[k] = [method |-> "POST", path |-> << "tests", testId, "runs" >>]
StartFailed(i) == startResp[i].state = "error"
StartSucceeded(i) == startResp[i].state = "ok"
IsStartErrorOf(i) ==
    /\ result.kind = "error"
    /\ result.request = [method |-> "POST",
                         path |-> << "tests", activeTests[i].id, "runs" >>]
    /\ result.status = startResp[i].status
RunOf(runId) == CHOOSE r \in { svcRuns[k] : k \in DOMAIN svcRuns } : r.id = runId
RunExists(runId) == \E k \in DOMAIN svcRuns : svcRuns[k].id = runId

(***************************************************************************)
(* C12.  Preparation is all-or-nothing for the caller: the start-run       *)
(* request of every selected test is issued as soon as the batch is        *)
(* selected; when a start-run fails the call fails with the error of a     *)
(* failed start-run; the client sends nothing that would undo a start, and *)
(* the runs the service did start stay running; a returned BatchResult     *)
(* has, in every entry, the id of a run that was started.                  *)
(***************************************************************************)
C12_AllOrNothing ==
    /\ \A i \in DOMAIN startResp : SentStart(activeTests[i].id)
    /\ (\E i \in DOMAIN startResp : StartFailed(i))
          => \E j \in DOMAIN startResp : StartFailed(j) /\ IsStartErrorOf(j)
    /\ \A k \in DOMAIN sent : sent[k].method \in { "GET", "POST" }
    /\ \A i \in DOMAIN startResp :
          StartSucceeded(i) =>
             /\ RunExists(startResp[i].run.id)
             /\ RunOf(startResp[i].run.id).status = "running"
    /\ result.kind = "ok" =>
          /\ Len(result.value.tests) = Len(startResp)
          /\ \A i \in DOMAIN result.value.tests :
                /\ StartSucceeded(i)
                /\ RunExists(result.value.tests[i].run_id)

C12_Witness ==
    /\ result.kind = "error"
    /\ \E i, j \in DOMAIN startResp :
          /\ StartFailed(i) /\ IsStartErrorOf(i)
          /\ StartSucceeded(j)
          /\ RunOf(startResp[j].run.id).status = "running"

(***************************************************************************)
(* C13.  Order and pairing: the returned entries are the selected tests    *)
(* in selection order, and entry i carries the id of the run that the      *)
(* start-run request for that entry's own test created, whatever the       *)
(* order in which the start-run requests complete.                         *)
(***************************************************************************)
C13_OrderAndPairing ==
    result.kind = "ok" =>
        /\ Len(result.value.tests) = Len(activeTests)
        /\ \A i \in DOMAIN result.value.tests :
              /\ result.value.tests[i].test_id = activeTests[i].id
              /\ RunExists(result.value.tests[i].run_id)
              /\ RunOf(result.value.tests[i].run_id).test_id
                    = result.value.tests[i].test_id

C13_Witness ==
    /\ result.kind = "ok"
    /\ Len(result.value.tests) = 2
    /\ svcRuns[1].id = result.value.tests[2].run_id
    /\ svcRuns[2].id = result.value.tests[1].run_id


(***************************************************************************)
(* C14.  As claimed: when prepareTestBatch returns normally, every test    *)
(* in the result was sent both a full-detail request (GET /tests/{id})     *)
(* and a start-run request (POST /tests/{id}/runs).                        *)
(***************************************************************************)
SentDetail(testId) ==
    \E k \in DOMAIN sent :
        sent[k] = [method |-> "GET", path |-> << "tests", testId >>]

C14_AsClaimed ==
    result.kind = "ok" =>
        \A i \in DOMAIN result.value.tests :
            /\ SentDetail(result.value.tests[i].test_id)
            /\ SentStart(result.value.tests[i].test_id)


(***************************************************************************)
(* C15.  An empty batch is a success: when no test survives the selection  *)
(* the call returns normally with the project summary and an empty test    *)
(* list, and no start-run request is sent and no run is created.           *)
(***************************************************************************)
NoStartSent == \A k \in DOMAIN sent : sent[k].method # "POST"

C15_EmptyBatch ==
    (Selected /\ activeTests = << >>) =>
        /\ result.kind = "ok"
        /\ result.value.tests = << >>
        /\ result.value.project = projectSummary
        /\ NoStartSent
        /\ svcRuns = << >>

C15_Witness ==
    /\ Selected /\ ExprGiven /\ ~IdsGiven
    /\ \E i \in DOMAIN tests : StatusIsActive(tests[i])
    /\ activeTests = << >>
    /\ result.kind = "ok"

(***************************************************************************)
(* C16.  As claimed: when the project fetch is answered 404 the call       *)
(* fails with the error of the project fetch, whatever the listing did,    *)
(* and no run is started.                                                  *)
(***************************************************************************)
ProjectNotFound == projectResp = "404"
ListingFailed == testsResp \in { "404", "500" }
IsProjectError ==
    /\ result.kind = "error"
    /\ result.request = [method |-> "GET", path |-> << "projects", project.id >>]
    /\ result.status = projectResp
IsListingError ==
    /\ result.kind = "error"
    /\ result.request = [method |-> "GET",
                         path |-> << "projects", project.id, "tests?compact=1" >>]
    /\ result.status = testsResp

C16_AsClaimed ==
    ProjectNotFound => (IsProjectError /\ NoStartSent /\ svcRuns = << >>)

(***************************************************************************)
(* C16.  When the project fetch is answered 404 the call fails, with the   *)
(* error of the project fetch, or with the error of the listing when the   *)
(* listing failed before it; no BatchResult is returned, no start-run      *)
(* request is sent and no run is created.                                  *)
(***************************************************************************)
C16_ProjectNotFound ==
    ProjectNotFound =>
        /\ IsProjectError \/ (ListingFailed /\ IsListingError)
        /\ NoStartSent
        /\ svcRuns = << >>

C16_Witness ==
    /\ ProjectNotFound
    /\ testsResp = "ok"
    /\ IsProjectError


(***************************************************************************)
(* C19.  Every start creates a new, distinct run in state running, also    *)
(* when a run of the same test is already running: the run ids handed to   *)
(* the callers of prepare_test_batch and start_run are pairwise distinct,  *)
(* each belongs to a run of the test it was handed out for, and all of     *)
(* these runs are running together.                                        *)
(***************************************************************************)
HandedOutCalls == Append(history, result)
IsBatch(h) == h.kind = "ok" /\ "tests" \in DOMAIN h.value
IsSingleRun(h) == h.kind = "ok" /\ "run" \in DOMAIN h.value
RunIdsOf(h) ==
    IF IsBatch(h) THEN { h.value.tests[i].run_id : i \in DOMAIN h.value.tests }
    ELSE IF IsSingleRun(h) THEN { h.value.run.id }
    ELSE { }

EntryCompleted(i) ==
    RunOf(completion.runs[i].run_id).status = completion.runs[i].status
CompletedEntries == { i \in DOMAIN completion.runs : EntryCompleted(i) }
AgreesWithReturned(entries) == Cardinality(entries) = completion.value.completed

C20_AsClaimed ==
    completion.state = "ok" =>
        \A entries \in SUBSET DOMAIN completion.runs :
            AgreesWithReturned(entries) => entries = CompletedEntries


(***************************************************************************)
(* C21.  Dangling credential reference: when a selected test names a       *)
(* credential that the project does not have, the summary is still built,  *)
(* no listed credential bears the dangling name, and every project         *)
(* credential named by a selected test is listed.                          *)
(***************************************************************************)
IsProjectCredentialName(n) ==
    \E k \in DOMAIN ProjectCredentials : ProjectCredentials[k].name = n
DanglingNames == { n \in NonEmptyNames(activeTests) : ~IsProjectCredentialName(n) }
IsListed(cred) ==
    \E k \in DOMAIN ListedCredentials(projectSummary) :
        ListedCredentials(projectSummary)[k] = cred

C21_DanglingReference ==
    (Selected /\ AuthNotNone /\ DanglingNames # {}) =>
        /\ pc # "failed"
        /\ "id" \in DOMAIN projectSummary /\ projectSummary.id = project.id
        /\ \A k \in DOMAIN ListedCredentials(projectSummary) :
              ListedCredentials(projectSummary)[k].name \notin DanglingNames
        /\ \A k \in DOMAIN ProjectCredentials :
              ProjectCredentials[k].name \in NonEmptyNames(activeTests)
                  => IsListed(ProjectCredentials[k])

\* one selected test names ghost, the other admin: admin alone is listed
C21_Witness ==
    /\ Selected /\ AuthNotNone
    /\ Len(ProjectCredentials) = 2
    /\ NonEmptyNames(activeTests) = { "ghost", "admin" }
    /\ DanglingNames = { "ghost" }
    /\ Len(ListedCredentials(projectSummary)) = 1
    /\ ListedCredentials(projectSummary)[1].name = "admin"

(***************************************************************************)
(* C29.  When auth_mode is not none and the selected tests reference at    *)
(* least one credential name, none of which is the name of a project       *)
(* credential, the summary has no credentials property: neither the        *)
(* project's full list nor an empty list.                                  *)
(***************************************************************************)
C29_NoCredentialsField ==
    (Selected /\ AuthNotNone
       /\ NonEmptyNames(activeTests) # {}
       /\ \A n \in NonEmptyNames(activeTests) : ~IsProjectCredentialName(n)) =>
        "credentials" \notin DOMAIN projectSummary

\* the project has credentials, the only name referenced is ghost
C29_Witness ==
    /\ Selected /\ AuthNotNone
    /\ Len(ProjectCredentials) = 2
    /\ NonEmptyNames(activeTests) = { "ghost" }
    /\ "credentials" \notin DOMAIN projectSummary
    /\ "login_url" \in DOMAIN projectSummary


(***************************************************************************)
(* C27.  Exactly one rule applies per expression: with no explicit ids,    *)
(* under an expression starting with "/" an active test without a page     *)
(* URL containing it is not returned, and under an expression starting     *)
(* with "tag:" an active test without that tag is not returned, whatever   *)
(* the test's name or pages contain.                                       *)
(***************************************************************************)
IsReturned(t) == \E j \in DOMAIN activeTests : activeTests[j] = t

C27_OneRule ==
    /\ (Selected /\ ~IdsGiven /\ ExprIsPage) =>
          \A i \in DOMAIN tests :
              ~HasPageContaining(tests[i], args.filter) => ~IsReturned(tests[i])
    /\ (Selected /\ ~IdsGiven /\ ExprIsTag /\ TagsInScope) =>
          \A i \in DOMAIN tests :
              ~HasTagNamed(tests[i], SubSeq(args.filter, 5, Len(args.filter)))
                  => ~IsReturned(tests[i])

\* "/b": the active test named "Lo/b" has no page and is not returned
C27_Witness ==
    /\ Selected /\ ~IdsGiven /\ ExprIsPage
    /\ \E i \in DOMAIN tests :
          /\ StatusIsActive(tests[i])
          /\ NameContains(tests[i], args.filter)
          /\ ~HasPageContaining(tests[i], args.filter)
          /\ ~IsReturned(tests[i])
    /\ activeTests # << >>


(***************************************************************************)
(* C23.  No internal retries: a prepareTestBatch call sends the project    *)
(* fetch once, the test listing once and one start-run per selected test,  *)
(* no request twice, also after a request has failed; and a failed         *)
(* request fails the call.                                                 *)
(***************************************************************************)
TimesSent(request) == Cardinality({ k \in DOMAIN sent : sent[k] = request })
SomeRequestFailed ==
    \/ projectResp \in { "404", "500" }
    \/ testsResp \in { "404", "500" }
    \/ \E i \in DOMAIN startResp : StartFailed(i)

C23_NoRetries ==
    /\ \A k \in DOMAIN sent : TimesSent(sent[k]) = 1
    /\ pc # "idle" =>
          /\ TimesSent([method |-> "GET", path |-> << "projects", project.id >>]) = 1
          /\ TimesSent([method |-> "GET",
                        path |-> << "projects", project.id, "tests?compact=1" >>]) = 1
          /\ Len(sent) = 2 + Len(startResp)
    /\ \A i \in DOMAIN startResp :
          TimesSent([method |-> "POST",
                     path |-> << "tests", activeTests[i].id, "runs" >>]) = 1
    /\ SomeRequestFailed => result.kind = "error"

\* both start-runs of a batch of two have failed: four requests in all
C23_Witness ==
    /\ Len(startResp) = 2
    /\ \A i \in DOMAIN startResp : StartFailed(i)
    /\ result.kind = "error"
    /\ Len(sent) = 4

(***************************************************************************)
(* C28.  Orphaned runs: the start-run request of every selected test is    *)
(* sent before any start-run has been answered; after a start-run has      *)
(* failed, the runs created by the other start-runs are in state running,  *)
(* and the call has sent nothing but its two reads and the start-runs.     *)
(***************************************************************************)
IsReadOfCall(request) ==
    /\ request.method = "GET"
    /\ request.path \in { << "projects", project.id >>,
                          << "projects", project.id, "tests?compact=1" >> }
IsStartOfBatch(request) ==
    /\ request.method = "POST"
    /\ \E i \in DOMAIN activeTests :
          request.path = << "tests", activeTests[i].id, "runs" >>

C28_OrphanedRuns ==
    /\ \A i \in DOMAIN startResp : SentStart(activeTests[i].id)
    /\ (\E i \in DOMAIN startResp : StartFailed(i)) =>
          /\ \A k \in DOMAIN svcRuns : svcRuns[k].status = "running"
          /\ \A j \in DOMAIN startResp :
                StartSucceeded(j) => RunExists(startResp[j].run.id)
          /\ \A k \in DOMAIN sent : IsReadOfCall(sent[k]) \/ IsStartOfBatch(sent[k])

\* the call has failed on one start-run and the other has created a run
C28_Witness ==
    /\ pc = "failed"
    /\ Len(startResp) = 2
    /\ \E i \in DOMAIN startResp : StartFailed(i)
    /\ Len(svcRuns) = 1
    /\ svcRuns[1].status = "running"
    /\ Len(sent) = 4


(***************************************************************************)
(* C22.  A response with a status outside 200..299 becomes a thrown        *)
(* failure that carries the method and path of the request, the status,    *)
(* and as message the JSON message field when the body is JSON with a      *)
(* non-empty message, otherwise the raw body; a response with a status in  *)
(* 200..299 never throws this failure.                                     *)
(***************************************************************************)
Answered == result.kind # "none" /\ Len(sent) = 1
StatusIs2xx == response.status >= 200 /\ response.status < 300
BodyHasJsonMessage ==
    /\ response.parsed.kind = "object"
    /\ "message" \in DOMAIN response.parsed.props
    /\ response.parsed.props.message \notin { "", "<null>" }

C22_FailureConversion ==
    Answered =>
        IF StatusIs2xx
        THEN result.kind # "error"
        ELSE /\ result.kind = "error"
             /\ result.request.method = sent[1].method
             /\ result.request.path = sent[1].path
             /\ result.status = ToString(response.status)
             /\ result.message = IF BodyHasJsonMessage
                                 THEN response.parsed.props.message
                                 ELSE response.text

\* a 404 whose JSON body has a message, on the start-run request
C22_Witness ==
    /\ Answered
    /\ response.status = 404
    /\ BodyHasJsonMessage
    /\ sent[1].method = "POST"
    /\ result.kind = "error"
    /\ result.message = "No project"

(***************************************************************************)
(* C24.  As claimed: when the token is missing, or is one the service      *)
(* rejects, the process ends at start: the server never serves tools and   *)
(* no request is sent.                                                     *)
(***************************************************************************)
TokenMissing ==
    "GREENRUN_API_TOKEN" \notin DOMAIN env \/ env.GREENRUN_API_TOKEN = ""
TokenRejected == response.status = 401

C24_AsClaimed ==
    (TokenMissing \/ TokenRejected) => (pc \in { "boot", "exited" } /\ sent = << >>)


(***************************************************************************)
(* C26.  Sweep leaves runs untouched: a step in which a sweep request is   *)
(* sent sends that one request and no other, the request is a GET, and     *)
(* the runs and their statuses are the same after the step as before,      *)
(* for every combination of pages and url_pattern.                         *)
(***************************************************************************)
IsSweepRequest(request) == "query" \in DOMAIN request

C26_SweepLeavesRuns ==
    [][ (\E k \in DOMAIN sent' : k > Len(sent) /\ IsSweepRequest(sent'[k])) =>
            /\ Len(sent') = Len(sent) + 1
            /\ sent'[Len(sent')].method = "GET"
            /\ svcRuns' = svcRuns
            /\ completion' = completion ]_vars

\* a sweep with both pages and url_pattern, sent while a run was running
\* and another had been completed
C26_Witness ==
    /\ \E k \in DOMAIN sent :
          /\ IsSweepRequest(sent[k])
          /\ Len(sent[k].query) = 2
          /\ \E j \in DOMAIN sent : j < k /\ sent[j].method = "PUT"
    /\ \E i, j \in DOMAIN svcRuns :
          svcRuns[i].status = "running" /\ svcRuns[j].status = "passed"

(***************************************************************************)
(* C30.  The complete_run and batch_complete_runs tools send only the      *)
(* statuses passed, failed and error: every completion request in the      *)
(* request log carries one of these, and every run is running or has one   *)
(* of these statuses.                                                      *)
(***************************************************************************)
TerminalStatuses == { "passed", "failed", "error" }
StatusesSent(request) ==
    IF "body" \notin DOMAIN request THEN { }
    ELSE IF "status" \in DOMAIN request.body THEN { request.body.status }
    ELSE { request.body.runs[i].status : i \in DOMAIN request.body.runs }

C30_TerminalStatusesOnly ==
    /\ \A k \in DOMAIN sent : StatusesSent(sent[k]) \subseteq TerminalStatuses
    /\ \A k \in DOMAIN svcRuns :
          svcRuns[k].status \in { "running" } \cup TerminalStatuses

\* complete_run was called with status running: refused, nothing sent
C30_Witness ==
    /\ \E k \in DOMAIN history :
          /\ history[k].kind = "invalid"
          /\ history[k].args.status = "running"
    /\ \A k \in DOMAIN sent : sent[k].method # "PUT"
    /\ svcRuns # << >>

====
